---- MODULE Spec2Model ----
(***************************************************************************)
(* Client-side authentication of the Information Assistant frontend:       *)
(*   - runtimeConfig.ts   loadRuntimeConfig / clearConfigCache             *)
(*   - authConfig.ts      msalConfig / loadMsalConfig                      *)
(*   - AuthContext.tsx    AuthProvider (initializeMsal, login, logout,     *)
(*                        acquireTokenSilently)                            *)
(*   - AuthenticatedApp.tsx  the gate component                            *)
(*   - apiClient.ts       AuthenticatedApiClient (getAccessToken,          *)
(*                        authenticatedFetch)                              *)
(*                                                                         *)
(* A JavaScript string is modelled by its split on "/": a sequence of      *)
(* segments.  <<>> stands for undefined/null (no string), <<"">> for the   *)
(* empty string.  Both are falsy, everything else is truthy.               *)
(***************************************************************************)
EXTENDS Naturals, Sequences, FiniteSets, TLC

\* ------------------------------------------------------------------ bounds
\* Number of loadRuntimeConfig invocations in one behaviour.
MaxCalls == 2
\* Number of clearConfigCache invocations in one behaviour.
MaxClears == 1
\* Number of /.auth/me probes of the gate in flight at one time.
MaxProbes == 2

\* ------------------------------------------------------- JavaScript values
Undefined == <<>>
EmptyStr == <<"">>
Str(s) == <<s>>

Truthy(v) == v # Undefined /\ v # EmptyStr

\* a || b
Or(a, b) == IF Truthy(a) THEN a ELSE b

\* string concatenation of two defined strings, on their "/"-splits
Concat(s, t) ==
    SubSeq(s, 1, Len(s) - 1) \o <<s[Len(s)] \o t[1]>> \o Tail(t)

\* "https://login.microsoftonline.com/"
IssuerBase == <<"https:", "", "login.microsoftonline.com", "">>
\* 'https://login.microsoftonline.com/common'
CommonAuthority == <<"https:", "", "login.microsoftonline.com", "common">>
\* 'User.Read'
UserRead == Str("User.Read")

\* An optional array (API_SCOPES?: string[]): absent, or present with items.
NoArray == [has |-> FALSE, items |-> <<>>]
Array(xs) == [has |-> TRUE, items |-> xs]

\* ----------------------------------------------------------- input universes
GuidTenant == "72f988bf-86f1-41af-91ab-2d7cd011db47"
\* Segments made of 36 characters of [0-9a-f-] (the set the model draws from).
GuidSegments == {GuidTenant}
\* common|organizations|consumers, matched case-insensitively (/i)
TenantWords == {"common", "organizations", "consumers",
                "COMMON", "Organizations", "CONSUMERS"}

\* Authority URLs the App Service claim may carry.
AuthMeAuthorities ==
    { <<"https:", "", "login.microsoftonline.com", GuidTenant>>,
      <<"https:", "", "login.microsoftonline.com", "Organizations", "">>,
      <<"https:", "", "sts.windows.net", GuidTenant, "v2.0">> }

BackendAuthority == <<"https:", "", "login.microsoftonline.us", "t1">>
InjectedAuthority == <<"https:", "", "login.microsoftonline.com", "t3">>
EnvAuthority == <<"https:", "", "login.microsoftonline.com", "t4">>

\* Responses of GET /getMsalConfig.
BackendFailures ==
    { [kind |-> k, clientId |-> Undefined, tenantId |-> Undefined,
       authority |-> Undefined] : k \in {"neterr", "status", "badjson", "nullbody"} }
BackendJson(cids, tids, auths) ==
    { [kind |-> "json", clientId |-> c, tenantId |-> t, authority |-> a] :
        c \in cids, t \in tids, a \in auths }
BackendOutcomes ==
    BackendFailures \cup
    BackendJson({Undefined, EmptyStr, Str("c1")}, {Undefined, Str("t1")},
                {Undefined, BackendAuthority})
BackendOutcomesSmall ==
    { o \in BackendFailures : o.kind \in {"neterr"} } \cup
    BackendJson({Undefined, Str("c1")}, {Str("t1")}, {Undefined})

\* Responses of GET /.auth/me.
AuthMeFailures ==
    { [kind |-> k, client_id |-> Undefined, authority |-> Undefined] :
        k \in {"neterr", "status", "badjson", "nullbody", "empty", "nullclaim"} }
AuthMeClaims(cids, auths) ==
    { [kind |-> "claims", client_id |-> c, authority |-> a] : c \in cids, a \in auths }
AuthMeOutcomes ==
    AuthMeFailures \cup
    AuthMeClaims({Undefined, Str("c2")}, {Undefined} \cup AuthMeAuthorities)
AuthMeOutcomesSmall ==
    { o \in AuthMeFailures : o.kind \in {"neterr", "empty"} } \cup
    AuthMeClaims({Str("c2")}, {<<"https:", "", "login.microsoftonline.com", GuidTenant>>})

\* window.__RUNTIME_CONFIG__: absent, or an object with optional fields.
NoInjected ==
    [present |-> FALSE, AZURE_CLIENT_ID |-> Undefined, AZURE_TENANT_ID |-> Undefined,
     AZURE_AUTHORITY |-> Undefined, API_SCOPES |-> NoArray]
InjectedObjects(cids, tids, auths, scopes) ==
    { [present |-> TRUE, AZURE_CLIENT_ID |-> c, AZURE_TENANT_ID |-> t,
       AZURE_AUTHORITY |-> a, API_SCOPES |-> s] :
        c \in cids, t \in tids, a \in auths, s \in scopes }
InjectedChoices ==
    {NoInjected} \cup
    InjectedObjects({Undefined, Str("c3")}, {Undefined, Str("t3")},
                    {Undefined, InjectedAuthority},
                    {NoArray, Array(<<>>), Array(<<Str("api.custom")>>)})
InjectedChoicesSmall ==
    {NoInjected} \cup
    InjectedObjects({Str("c3")}, {Undefined}, {Undefined}, {NoArray})

\* import.meta.env.VITE_AZURE_*
EnvObjects(cids, tids, auths) ==
    { [VITE_AZURE_CLIENT_ID |-> c, VITE_AZURE_TENANT_ID |-> t,
       VITE_AZURE_AUTHORITY |-> a] : c \in cids, t \in tids, a \in auths }
EnvChoices ==
    EnvObjects({Undefined, Str("c4")}, {Undefined, Str("t4")}, {Undefined, EnvAuthority})
EnvChoicesSmall ==
    EnvObjects({Undefined}, {Undefined}, {Undefined})

\* ------------------------------------------------------------------- state
VARIABLES
    cachedConfig,    \* runtimeConfig.ts: let cachedConfig
    injected,        \* window.__RUNTIME_CONFIG__
    viteEnv,         \* import.meta.env
    call,            \* the loadRuntimeConfig invocations, by number
    calls,           \* invocations started so far
    clears,          \* clearConfigCache invocations so far
    nextId,          \* identity of the next object literal
    backendQueries,  \* fetch('/getMsalConfig') issued so far
    authMeQueries,   \* fetch('/.auth/me') issued by loadRuntimeConfig so far
    lastReturned,    \* what the most recently completed invocation returned;
                     \* NullConfig again once clearConfigCache has run
    clearPending     \* clearConfigCache ran and no invocation started since

cfgVars == <<cachedConfig, injected, viteEnv, call, calls, clears, nextId,
             backendQueries, authMeQueries, lastReturned, clearPending>>

VARIABLES
    instance,        \* AuthProvider state: 0 is null, otherwise the client handle
    accounts,        \* AuthProvider state
    isAuthenticated, \* AuthProvider state
    isLoading,       \* AuthProvider state
    error,           \* AuthProvider state
    initPc,          \* where initializeMsal stands
    initCall,        \* the loadRuntimeConfig invocation made for initializeMsal
    msalConfig,      \* authConfig.ts: msalConfig.auth
    scopeRequests,   \* authConfig.ts: apiRequest.scopes, silentRequest.scopes
    acq              \* the acquireTokenSilently invocation

sessVars == <<instance, accounts, isAuthenticated, isLoading, error, initPc, initCall,
              msalConfig, scopeRequests, acq>>

VARIABLES
    msalAccounts     \* the identity library's account cache: getAllAccounts()

libVars == <<msalAccounts>>

VARIABLES
    apiMsalInstance, \* AuthenticatedApiClient.msalInstance of the singleton apiClient
    req              \* the authenticatedFetch invocation

apiVars == <<apiMsalInstance, req>>

VARIABLES
    signIn,          \* the login invocation
    signOut          \* the logout invocation

opVars == <<signIn, signOut>>

VARIABLES
    shown,           \* what AuthenticatedApp rendered at the last commit
    pendingEffects,  \* the effects of the last commit that have not run yet
    childSaw,        \* what the mount effects of the wrapped content found
    probe            \* attemptSilentLogin: its /.auth/me requests and its last log

gateVars == <<shown, pendingEffects, childSaw, probe>>

vars == <<cfgVars, sessVars, libVars, apiVars, opVars, gateVars>>

\* ------------------------------------------------------------ RuntimeConfig
\* id is the object's identity (0: null); {} has every field undefined.
EmptyConfig(id) ==
    [id |-> id, AZURE_CLIENT_ID |-> Undefined, AZURE_TENANT_ID |-> Undefined,
     AZURE_AUTHORITY |-> Undefined, API_SCOPES |-> NoArray]
NullConfig == EmptyConfig(0)

Callers == 1 .. MaxCalls

NoBackend == [kind |-> "none", clientId |-> Undefined, tenantId |-> Undefined,
              authority |-> Undefined]
NoAuthMe == [kind |-> "none", client_id |-> Undefined, authority |-> Undefined]

IdleCall ==
    [pc |-> "idle", config |-> NullConfig, ret |-> NullConfig,
     backend |-> NoBackend, authMe |-> NoAuthMe, fetches |-> 0,
     afterClear |-> FALSE, epoch |-> 0]

\* authority.match(/\/([0-9a-f-]{36}|common|organizations|consumers)\/?$/i):
\* the matched segment, or Undefined when there is no match.
TenantSegment(seg) == seg \in GuidSegments \cup TenantWords
TenantMatch(authority) ==
    LET n == Len(authority) IN
    IF n >= 2 /\ TenantSegment(authority[n]) THEN Str(authority[n])
    ELSE IF n >= 3 /\ authority[n] = "" /\ TenantSegment(authority[n - 1])
         THEN Str(authority[n - 1])
    ELSE Undefined

\* The body of the first try block: the config it leaves and whether it threw.
BackendBody(config, o) ==
    IF o.kind \in {"neterr", "badjson", "nullbody"} THEN
        [config |-> config, threw |-> TRUE]
    ELSE IF o.kind = "status" THEN
        [config |-> config, threw |-> FALSE]
    ELSE
        [config |-> [config EXCEPT !.AZURE_CLIENT_ID = o.clientId,
                                   !.AZURE_TENANT_ID = o.tenantId,
                                   !.AZURE_AUTHORITY = o.authority],
         threw |-> FALSE]

\* try { ... } catch (error) { console.log(...) }
Caught(r) == [r EXCEPT !.threw = FALSE]

\* the first block without its catch
BackendTryUncaught(config, o) == BackendBody(config, o)

BackendTry(config, o) == Caught(BackendBody(config, o))

\* the second block with authInfo.client_id || config.AZURE_CLIENT_ID
AuthMeBodyClaimFirst(config, o) ==
    IF o.kind \in {"neterr", "badjson", "nullclaim"} THEN
        [config |-> config, threw |-> TRUE]
    ELSE IF o.kind \in {"status", "nullbody", "empty"} THEN
        [config |-> config, threw |-> FALSE]
    ELSE
        [config |-> [config EXCEPT
                       !.AZURE_CLIENT_ID = Or(o.client_id, config.AZURE_CLIENT_ID)],
         threw |-> FALSE]

\* The body of the second try block.
AuthMeBody(config, o) ==
    IF o.kind \in {"neterr", "badjson", "nullclaim"} THEN
        [config |-> config, threw |-> TRUE]
    ELSE IF o.kind \in {"status", "nullbody", "empty"} THEN
        [config |-> config, threw |-> FALSE]
    ELSE
        LET c1 == [config EXCEPT
                     !.AZURE_CLIENT_ID = Or(config.AZURE_CLIENT_ID, o.client_id)]
            m == TenantMatch(o.authority)
            c2 == IF Truthy(o.authority)
                  THEN [c1 EXCEPT !.AZURE_AUTHORITY = o.authority,
                                  !.AZURE_TENANT_ID =
                                      IF m # Undefined THEN m ELSE c1.AZURE_TENANT_ID]
                  ELSE c1
        IN [config |-> c2, threw |-> FALSE]

AuthMeTry(config, o) == Caught(AuthMeBody(config, o))

\* if (runtimeConfig) { ... }
MergeInjected(config, rc) ==
    IF rc.present THEN
        [config EXCEPT
           !.AZURE_CLIENT_ID = Or(config.AZURE_CLIENT_ID, rc.AZURE_CLIENT_ID),
           !.AZURE_TENANT_ID = Or(config.AZURE_TENANT_ID, rc.AZURE_TENANT_ID),
           !.AZURE_AUTHORITY = Or(config.AZURE_AUTHORITY, rc.AZURE_AUTHORITY),
           !.API_SCOPES = IF config.API_SCOPES.has THEN config.API_SCOPES
                          ELSE rc.API_SCOPES]
    ELSE config

MergeEnv(config, env) ==
    [config EXCEPT
       !.AZURE_CLIENT_ID = Or(config.AZURE_CLIENT_ID, env.VITE_AZURE_CLIENT_ID),
       !.AZURE_TENANT_ID = Or(config.AZURE_TENANT_ID, env.VITE_AZURE_TENANT_ID),
       !.AZURE_AUTHORITY = Or(config.AZURE_AUTHORITY, env.VITE_AZURE_AUTHORITY)]

\* the tenant-derived authority left out: always the generic issuer
DefaultAuthorityCommonOnly(config) ==
    IF ~Truthy(config.AZURE_AUTHORITY)
    THEN [config EXCEPT !.AZURE_AUTHORITY = CommonAuthority]
    ELSE config

\* the final default left out
DefaultAuthorityTenantOnly(config) ==
    IF Truthy(config.AZURE_TENANT_ID) /\ ~Truthy(config.AZURE_AUTHORITY)
    THEN [config EXCEPT !.AZURE_AUTHORITY = Concat(IssuerBase, config.AZURE_TENANT_ID)]
    ELSE config

DefaultAuthority(config) ==
    LET c1 == IF Truthy(config.AZURE_TENANT_ID) /\ ~Truthy(config.AZURE_AUTHORITY)
              THEN [config EXCEPT
                      !.AZURE_AUTHORITY = Concat(IssuerBase, config.AZURE_TENANT_ID)]
              ELSE config
    IN IF ~Truthy(c1.AZURE_AUTHORITY)
       THEN [c1 EXCEPT !.AZURE_AUTHORITY = CommonAuthority]
       ELSE c1

\* the push of the application scope left out
DefaultScopesBaselineOnly(config) ==
    IF ~config.API_SCOPES.has
    THEN [config EXCEPT !.API_SCOPES = Array(<<UserRead>>)]
    ELSE config

DefaultScopes(config) ==
    IF ~config.API_SCOPES.has THEN
        [config EXCEPT !.API_SCOPES =
            IF Truthy(config.AZURE_CLIENT_ID)
            THEN Array(<<UserRead,
                         Concat(Concat(<<"api:", "", "">>, config.AZURE_CLIENT_ID),
                                <<"", "access_as_user">>)>>)
            ELSE Array(<<UserRead>>)]
    ELSE config

\* Everything after the second try block up to the caching.
Fallbacks(config, rc, env) ==
    DefaultScopes(DefaultAuthority(MergeEnv(MergeInjected(config, rc), env)))

\* ------------------------------------------------------- loadRuntimeConfig
\* A completed invocation's record is kept until the next invocation starts.
Forget(r) == IF r.pc \in {"done", "rejected"} THEN [IdleCall EXCEPT !.pc = "gone"] ELSE r

InFlight(c) == call[c].pc \in {"awaitBackend", "awaitAuthMe"}
NoneInFlight == \A c \in Callers : ~InFlight(c)

\* the assignment left out
CacheStoreSkipped(old, config) == old

\* only a config with a client id is kept
CacheStoreOnlyWithClientId(old, config) ==
    IF Truthy(config.AZURE_CLIENT_ID) THEN config ELSE old

\* cachedConfig = config
CacheStore(old, config) == config

\* if (cachedConfig) return cachedConfig;  ...  const config = {};
\* ... await fetch('/getMsalConfig', ...)
LoadRuntimeConfigStart(c) ==
    /\ calls < MaxCalls
    /\ c = calls + 1
    /\ calls' = calls + 1
    /\ clearPending' = FALSE
    /\ IF cachedConfig.id # 0
       THEN /\ call' = [d \in Callers |->
                          IF d = c
                          THEN [IdleCall EXCEPT !.pc = "done", !.ret = cachedConfig,
                                                !.afterClear = clearPending,
                                                !.epoch = clears]
                          ELSE Forget(call[d])]
            /\ lastReturned' = cachedConfig
            /\ UNCHANGED <<nextId, backendQueries>>
       ELSE /\ call' = [d \in Callers |->
                          IF d = c
                          THEN [IdleCall EXCEPT !.pc = "awaitBackend",
                                                !.config = EmptyConfig(nextId),
                                                !.fetches = 1,
                                                !.afterClear = clearPending,
                                                !.epoch = clears]
                          ELSE Forget(call[d])]
            /\ nextId' = nextId + 1
            /\ backendQueries' = backendQueries + 1
            /\ UNCHANGED lastReturned
    /\ UNCHANGED <<cachedConfig, injected, viteEnv, clears, authMeQueries>>

\* the first try block completes; await fetch('/.auth/me', ...)
BackendResponse(c, o) ==
    /\ call[c].pc = "awaitBackend"
    /\ LET r == BackendTry(call[c].config, o) IN
       IF r.threw
       THEN /\ call' = [call EXCEPT ![c].pc = "rejected", ![c].backend = o]
            /\ UNCHANGED authMeQueries
       ELSE /\ call' = [call EXCEPT ![c].pc = "awaitAuthMe", ![c].config = r.config,
                                    ![c].backend = o,
                                    ![c].fetches = call[c].fetches + 1]
            /\ authMeQueries' = authMeQueries + 1
    /\ UNCHANGED <<cachedConfig, injected, viteEnv, calls, clears, nextId,
                   backendQueries, lastReturned, clearPending>>

\* the second try block completes; fallbacks, defaults, cachedConfig = config;
\* return config
AuthMeResponse(c, o) ==
    /\ call[c].pc = "awaitAuthMe"
    /\ LET r == AuthMeTry(call[c].config, o) IN
       IF r.threw
       THEN /\ call' = [call EXCEPT ![c].pc = "rejected", ![c].authMe = o]
            /\ UNCHANGED <<cachedConfig, lastReturned>>
       ELSE LET config == Fallbacks(r.config, injected, viteEnv) IN
            /\ cachedConfig' = CacheStore(cachedConfig, config)
            /\ call' = [call EXCEPT ![c].pc = "done", ![c].config = config,
                                    ![c].ret = config, ![c].authMe = o]
            /\ lastReturned' = config
    /\ UNCHANGED <<injected, viteEnv, calls, clears, nextId, backendQueries,
                   authMeQueries, clearPending>>

\* a clearConfigCache that leaves the cache as it is
clearConfigCacheKeeps ==
    /\ clears < MaxClears
    /\ clears' = clears + 1
    /\ lastReturned' = NullConfig
    /\ clearPending' = TRUE
    /\ UNCHANGED <<cachedConfig, injected, viteEnv, call, calls, nextId,
                   backendQueries, authMeQueries>>

\* export const clearConfigCache = (): void => { cachedConfig = null; }
clearConfigCache ==
    /\ clears < MaxClears
    /\ clears' = clears + 1
    /\ cachedConfig' = NullConfig
    /\ lastReturned' = NullConfig
    /\ clearPending' = TRUE
    /\ UNCHANGED <<injected, viteEnv, call, calls, nextId, backendQueries, authMeQueries>>

\* export const getCachedConfig = () => cachedConfig
getCachedConfig == cachedConfig

InitConfig(injectedSet, envSet) ==
    /\ cachedConfig = NullConfig
    /\ injected \in injectedSet
    /\ viteEnv \in envSet
    /\ call = [c \in Callers |-> IdleCall]
    /\ calls = 0
    /\ clears = 0
    /\ nextId = 1
    /\ backendQueries = 0
    /\ authMeQueries = 0
    /\ lastReturned = NullConfig
    /\ clearPending = FALSE

\* ------------------------------------------------------------ loadMsalConfig
\* error: string | null
NoError == "<null>"
\* an absent access token (null)
NoToken == "<null>"

ClientIdError == "Azure Client ID is not configured. Please set AZURE_CLIENT_ID in your environment or App Service configuration."
InitFailures == {"msal: initialization failed", "Failed to initialize authentication"}

\* msalConfig.auth as the module is loaded
InitialMsalConfig == [clientId |-> EmptyStr, authority |-> CommonAuthority]
\* apiRequest.scopes, silentRequest.scopes as the module is loaded
InitialScopeRequests == [apiRequest |-> <<>>, silentRequest |-> <<UserRead>>]

Includes(xs, x) == \E i \in 1 .. Len(xs) : xs[i] = x

\* the updates loadMsalConfig makes to msalConfig.auth from the runtime config
UpdateMsalConfig(old, rc) ==
    [clientId |-> IF Truthy(rc.AZURE_CLIENT_ID) THEN rc.AZURE_CLIENT_ID
                  ELSE old.clientId,
     authority |-> IF Truthy(rc.AZURE_AUTHORITY) THEN rc.AZURE_AUTHORITY
                   ELSE old.authority]

\* the updates loadMsalConfig makes to apiRequest and silentRequest
UpdateScopeRequests(old, rc) ==
    IF rc.API_SCOPES.has /\ Len(rc.API_SCOPES.items) > 0
    THEN [apiRequest |-> rc.API_SCOPES.items,
          silentRequest |-> IF Includes(rc.API_SCOPES.items, UserRead)
                            THEN rc.API_SCOPES.items
                            ELSE <<UserRead>> \o rc.API_SCOPES.items]
    ELSE old

\* --------------------------------------------------- AuthProvider.initializeMsal
\* a check for undefined only
ClientIdMissingUndefinedOnly(clientId) == clientId = Undefined

\* !configResult.auth.clientId
ClientIdMissing(clientId) == ~Truthy(clientId)

\* setIsLoading(false) at the end of the try body only
LoadingAfterNoFinally(failed) == failed

\* finally { setIsLoading(false) }: isLoading once initializeMsal has left its
\* try statement, by the body completing or through the catch (failed)
LoadingAfter(failed) == FALSE

\* setIsLoading(true); setError(null); ... await loadMsalConfig()
InitializeMsalStart ==
    /\ initPc = "mount"
    /\ initPc' = "config"
    /\ initCall' = calls + 1
    /\ isLoading' = TRUE
    /\ error' = NoError
    /\ LoadRuntimeConfigStart(calls + 1)
    /\ UNCHANGED <<instance, accounts, isAuthenticated, msalConfig, scopeRequests, acq>>

\* loadMsalConfig returns; the clientId check; new PublicClientApplication(...);
\* await msalInstance.initialize()
InitConfigLoaded(ctor) ==
    /\ initPc = "config"
    /\ call[initCall].pc \in {"done", "rejected"}
    /\ LET rejected == call[initCall].pc = "rejected"
           rc == call[initCall].ret
           mc == IF rejected THEN msalConfig ELSE UpdateMsalConfig(msalConfig, rc)
       IN /\ msalConfig' = mc
          /\ scopeRequests' = IF rejected THEN scopeRequests
                              ELSE UpdateScopeRequests(scopeRequests, rc)
          /\ IF ClientIdMissing(mc.clientId)
             THEN /\ error' = ClientIdError
                  /\ isLoading' = LoadingAfter(TRUE)
                  /\ initPc' = "failed"
             ELSE IF ctor # "ok"
             THEN /\ error' = ctor
                  /\ isLoading' = LoadingAfter(TRUE)
                  /\ initPc' = "failed"
             ELSE /\ initPc' = "msalInit"
                  /\ UNCHANGED <<error, isLoading>>
    /\ UNCHANGED <<instance, accounts, isAuthenticated, initCall, acq>>

\* msalInstance.initialize() settles; setInstance, setAccounts, setIsAuthenticated;
\* await msalInstance.handleRedirectPromise()
MsalInitialized(o) ==
    /\ initPc = "msalInit"
    /\ IF o = "ok"
       THEN /\ instance' = 1
            /\ accounts' = msalAccounts
            /\ isAuthenticated' = (Len(msalAccounts) > 0)
            /\ initPc' = "redirect"
            /\ UNCHANGED <<error, isLoading>>
       ELSE /\ error' = o
            /\ isLoading' = LoadingAfter(TRUE)
            /\ initPc' = "failed"
            /\ UNCHANGED <<instance, accounts, isAuthenticated>>
    /\ UNCHANGED <<initCall, msalConfig, scopeRequests, acq, msalAccounts>>

\* the accounts the library holds once it has processed a redirect response
WithAccount(xs, a) == IF Includes(xs, a) THEN xs ELSE Append(xs, a)

\* handleRedirectPromise() settles: no response, a response for an account, or
\* a failure; finally setIsLoading(false)
RedirectHandled(o) ==
    /\ initPc = "redirect"
    /\ isLoading' = LoadingAfter(o.kind = "fail")
    /\ IF o.kind = "none"
       THEN /\ initPc' = "ready"
            /\ UNCHANGED <<accounts, isAuthenticated, error, msalAccounts>>
       ELSE IF o.kind = "response"
       THEN /\ msalAccounts' = WithAccount(msalAccounts, o.account)
            /\ accounts' = msalAccounts'
            /\ isAuthenticated' = TRUE
            /\ initPc' = "ready"
            /\ UNCHANGED error
       ELSE /\ error' = o.message
            /\ initPc' = "failed"
            /\ UNCHANGED <<accounts, isAuthenticated, msalAccounts>>
    /\ UNCHANGED <<instance, initCall, msalConfig, scopeRequests, acq>>

\* React unmounts the AuthProvider and mounts it again: its state starts over
\* from the useState initial values and the mount effect will run
\* initializeMsal once more; the module-level msalConfig, apiRequest and
\* silentRequest objects and cachedConfig are not part of the component.
AuthProviderRemount ==
    /\ initPc \in {"failed", "ready"}
    /\ calls < MaxCalls
    /\ instance' = 0
    /\ accounts' = <<>>
    /\ isAuthenticated' = FALSE
    /\ isLoading' = TRUE
    /\ error' = NoError
    /\ initPc' = "mount"
    /\ initCall' = 0
    /\ UNCHANGED <<msalConfig, scopeRequests, acq>>

RedirectOutcomes ==
    { [kind |-> "none", account |-> "", message |-> ""],
      [kind |-> "response", account |-> "alice", message |-> ""] } \cup
    { [kind |-> "fail", account |-> "", message |-> m] : m \in InitFailures }

\* ------------------------------------------- AuthProvider.acquireTokenSilently
IdleAcq ==
    [pc |-> "idle", scopes |-> <<>>, account |-> "", silent |-> "none",
     popup |-> "none", popups |-> 0, popupAccount |-> "", result |-> NoToken,
     threw |-> FALSE, library |-> FALSE]

\* accounts[0]: undefined for an empty array
First(xs) == IF Len(xs) > 0 THEN xs[1] ELSE ""

\* the guard testing the handle only
CannotAcquireNoHandleOnly(inst, authenticated, accts) == inst = 0

\* !instance || !isAuthenticated || accounts.length === 0
CannotAcquire(inst, authenticated, accts) ==
    inst = 0 \/ ~authenticated \/ Len(accts) = 0

\* the instanceof test holding for every error
IsInteractionRequiredAlways(kind) == TRUE

\* the instanceof test failing for every error
IsInteractionRequiredNever(kind) == FALSE

\* err instanceof InteractionRequiredAuthError
IsInteractionRequired(kind) == kind = "interaction_required"

\* the guard, setError(null), and await instance.acquireTokenSilent(...)
AcquireTokenSilentlyStart(scopes) ==
    /\ acq.pc \in {"idle", "returned"}
    /\ IF CannotAcquire(instance, isAuthenticated, accounts)
       THEN /\ acq' = [IdleAcq EXCEPT !.pc = "returned", !.scopes = scopes]
            /\ UNCHANGED error
       ELSE /\ acq' = [IdleAcq EXCEPT !.pc = "silent", !.scopes = scopes,
                                      !.account = First(accounts), !.library = TRUE]
            /\ error' = NoError
    /\ UNCHANGED <<instance, accounts, isAuthenticated, isLoading, initPc, initCall,
                   msalConfig, scopeRequests>>

\* acquireTokenSilent(...) settles
SilentTokenResult(o) ==
    /\ acq.pc = "silent"
    /\ IF o.kind = "token"
       THEN /\ acq' = [acq EXCEPT !.pc = "returned", !.silent = o.kind,
                                 !.result = o.token]
            /\ UNCHANGED error
       ELSE IF IsInteractionRequired(o.kind)
       THEN /\ acq' = [acq EXCEPT !.pc = "popup", !.silent = o.kind,
                                 !.popups = acq.popups + 1,
                                 !.popupAccount = acq.account]
            /\ UNCHANGED error
       ELSE /\ acq' = [acq EXCEPT !.pc = "returned", !.silent = o.kind,
                                 !.result = NoToken]
            /\ error' = "Failed to acquire token silently"
    /\ UNCHANGED <<instance, accounts, isAuthenticated, isLoading, initPc, initCall,
                   msalConfig, scopeRequests>>

\* acquireTokenPopup(...) settles
PopupTokenResult(o) ==
    /\ acq.pc = "popup"
    /\ IF o.kind = "token"
       THEN /\ acq' = [acq EXCEPT !.pc = "returned", !.popup = o.kind,
                                 !.result = o.token]
            /\ UNCHANGED error
       ELSE /\ acq' = [acq EXCEPT !.pc = "returned", !.popup = o.kind,
                                 !.result = NoToken]
            /\ error' = "Failed to acquire token"
    /\ UNCHANGED <<instance, accounts, isAuthenticated, isLoading, initPc, initCall,
                   msalConfig, scopeRequests>>

Tokens == {"tokenA", "tokenB"}
SilentOutcomes ==
    { [kind |-> "token", token |-> t] : t \in Tokens } \cup
    { [kind |-> k, token |-> NoToken] : k \in {"interaction_required", "error"} }
PopupOutcomes ==
    { [kind |-> "token", token |-> t] : t \in Tokens } \cup
    { [kind |-> "fail", token |-> NoToken] }
ScopeChoices == { <<UserRead>>, <<Str("api.custom")>> }

\* ------------------------------------------------- AuthProvider.login, logout
\* window.location.origin
Origin == <<"https:", "", "assistant.example">>

NotInitializedError == "MSAL instance not initialized"

NoRequest == [scopes |-> <<>>, prompt |-> "", account |-> "",
              postLogoutRedirectUri |-> Undefined]

\* A login or logout invocation: where it stands, the redirect flows it has
\* started, the request of the last one, and what it threw ("": nothing).
IdleOp == [pc |-> "idle", redirects |-> 0, request |-> NoRequest, threw |-> ""]

\* a guard that never fires
NotInitializedNever(inst) == FALSE

\* if (!instance) { throw new Error('MSAL instance not initialized'); }
NotInitialized(inst) == inst = 0

\* the cached-account shortcut left out
AlreadySignedInNever(currentAccounts) == FALSE

\* currentAccounts.length > 0
AlreadySignedIn(currentAccounts) == Len(currentAccounts) > 0

\* the last cached account instead of the first
LastAccount(currentAccounts) == currentAccounts[Len(currentAccounts)]

\* currentAccounts[0]
PrimaryAccount(currentAccounts) == currentAccounts[1]

\* setIsAuthenticated(false) left out
SignedOutStillAuthenticated == [accounts |-> <<>>, isAuthenticated |-> TRUE]

\* setAccounts([]); setIsAuthenticated(false)
SignedOut == [accounts |-> <<>>, isAuthenticated |-> FALSE]

\* the account cache once the library has signed an account out
WithoutAccount(xs, a) == SelectSeq(xs, LAMBDA x : x # a)

\* a catch that starts the interactive flow once more
RetriedOnce(op, err) ==
    IF op.redirects < 2 THEN [op EXCEPT !.redirects = op.redirects + 1]
    ELSE [op EXCEPT !.pc = "thrown", !.threw = err]

\* catch (err) { console.error(...); setError(...); throw err; }: the
\* invocation ends by throwing err to its caller
Rethrown(op, err) == [op EXCEPT !.pc = "thrown", !.threw = err]

\* login up to its first await
LoginStart ==
    /\ signIn.pc # "redirect"
    /\ IF NotInitialized(instance)
       THEN /\ signIn' = [IdleOp EXCEPT !.pc = "thrown", !.threw = NotInitializedError]
            /\ UNCHANGED <<error, accounts, isAuthenticated>>
       ELSE /\ error' = NoError
            /\ IF AlreadySignedIn(msalAccounts)
               THEN /\ accounts' = msalAccounts
                    /\ isAuthenticated' = TRUE
                    /\ signIn' = [IdleOp EXCEPT !.pc = "returned"]
               ELSE /\ signIn' = [IdleOp EXCEPT
                                    !.pc = "redirect", !.redirects = 1,
                                    !.request.scopes = <<UserRead>>,
                                    !.request.prompt = "select_account"]
                    /\ UNCHANGED <<accounts, isAuthenticated>>
    /\ UNCHANGED <<instance, isLoading, initPc, initCall, msalConfig, scopeRequests,
                   acq, signOut>>

\* instance.loginRedirect(...) settles: the navigation is under way, or it failed
LoginRedirectSettled(o) ==
    /\ signIn.pc = "redirect"
    /\ IF o = "ok"
       THEN /\ signIn' = [signIn EXCEPT !.pc = "returned"]
            /\ UNCHANGED error
       ELSE /\ signIn' = Rethrown(signIn, o)
            /\ error' = "Login failed"
    /\ UNCHANGED <<instance, accounts, isAuthenticated, isLoading, initPc, initCall,
                   msalConfig, scopeRequests, acq, signOut>>

\* logout up to its first await
LogoutStart ==
    /\ signOut.pc # "redirect"
    /\ IF NotInitialized(instance)
       THEN /\ signOut' = [IdleOp EXCEPT !.pc = "thrown", !.threw = NotInitializedError]
            /\ UNCHANGED <<error, accounts, isAuthenticated>>
       ELSE /\ error' = NoError
            /\ IF Len(msalAccounts) > 0
               THEN /\ signOut' = [IdleOp EXCEPT
                                     !.pc = "redirect", !.redirects = 1,
                                     !.request.account = PrimaryAccount(msalAccounts),
                                     !.request.postLogoutRedirectUri = Origin]
                    /\ UNCHANGED <<accounts, isAuthenticated>>
               ELSE /\ accounts' = SignedOut.accounts
                    /\ isAuthenticated' = SignedOut.isAuthenticated
                    /\ signOut' = [IdleOp EXCEPT !.pc = "returned"]
    /\ UNCHANGED <<instance, isLoading, initPc, initCall, msalConfig, scopeRequests,
                   acq, signIn>>

\* instance.logoutRedirect(...) settles: the account is signed out, or it failed
LogoutRedirectSettled(o) ==
    /\ signOut.pc = "redirect"
    /\ IF o = "ok"
       THEN /\ msalAccounts' = WithoutAccount(msalAccounts, signOut.request.account)
            /\ accounts' = SignedOut.accounts
            /\ isAuthenticated' = SignedOut.isAuthenticated
            /\ signOut' = [signOut EXCEPT !.pc = "returned"]
            /\ UNCHANGED error
       ELSE /\ signOut' = Rethrown(signOut, o)
            /\ error' = "Logout failed"
            /\ UNCHANGED <<accounts, isAuthenticated, msalAccounts>>
    /\ UNCHANGED <<instance, isLoading, initPc, initCall, msalConfig, scopeRequests,
                   acq, signIn>>

RedirectFlowOutcomes == {"ok", "msal: interaction_in_progress"}

\* ------------------------------------------------------------ AuthenticatedApp
\* What the gate returns for the AuthProvider state: the view and the error
\* text it shows (NoError: none).
GateRender ==
    IF isLoading
    THEN [view |-> "loading", notice |-> error]
    ELSE IF instance # 0 /\ ~isAuthenticated /\ Len(accounts) = 0
    THEN [view |-> "signin", notice |-> error]
    ELSE [view |-> "children", notice |-> NoError]

\* what a render of AuthenticatedApp closes over: the view and the values of
\* useAuth() its effects depend on
Rendered ==
    [view |-> GateRender.view, instance |-> instance,
     isAuthenticated |-> isAuthenticated, isLoading |-> isLoading]

\* The effects a commit leaves to run: those of the wrapped content (mounted
\* by this commit) before the gate's own, as React runs children's effects
\* first; of the gate's own, useEffect(..., [instance]) before
\* useEffect(..., [instance, isAuthenticated, isLoading]), in source order.
EffectsOfCommit(before, after) ==
    (IF after.view = "children" /\ before.view # "children" THEN <<"children">> ELSE <<>>)
    \o (IF after.instance # before.instance THEN <<"gate">> ELSE <<>>)
    \o (IF \/ after.instance # before.instance
           \/ after.isAuthenticated # before.isAuthenticated
           \/ after.isLoading # before.isLoading
        THEN <<"probe">> ELSE <<>>)

\* The commit of a render of AuthenticatedApp with the current session state
GateCommit ==
    /\ pendingEffects = <<>>
    /\ Rendered # shown
    /\ shown' = Rendered
    /\ pendingEffects' = EffectsOfCommit(shown, Rendered)
    /\ UNCHANGED <<childSaw, probe>>

\* the mount effects of the wrapped content run: the handle useAuth() gave
\* them and the handle the apiClient singleton holds at that moment
ChildrenMountEffect ==
    /\ pendingEffects # <<>>
    /\ Head(pendingEffects) = "children"
    /\ pendingEffects' = Tail(pendingEffects)
    /\ childSaw' = [mounted |-> TRUE, instance |-> shown.instance,
                    handle |-> apiMsalInstance]
    /\ UNCHANGED <<shown, probe, apiVars>>

\* if (instance) { apiClient.setMsalInstance(instance); }
Forwarded(inst, handle) == IF inst # 0 THEN inst ELSE handle

\* useEffect(() => { if (instance) apiClient.setMsalInstance(instance) }, [instance])
GateInstanceEffect ==
    /\ pendingEffects # <<>>
    /\ Head(pendingEffects) = "gate"
    /\ pendingEffects' = Tail(pendingEffects)
    /\ apiMsalInstance' = Forwarded(shown.instance, apiMsalInstance)
    /\ UNCHANGED <<shown, childSaw, probe, req>>

\* the outcomes of fetch('/.auth/me') and response.json() in attemptSilentLogin:
\* claims, an empty array, a non-2xx status, a network failure, a body that
\* is not JSON
ProbeOutcomes == {"claims", "empty", "status", "neterr", "badjson"}

IdleProbe == [inFlight |-> 0, log |-> "none"]

\* the probe takes claims from App Service for a sign-in
AuthenticatedAfterProbeTrustsClaims(o, authenticated) == authenticated \/ o = "claims"

\* isAuthenticated once the probe has settled with o: every branch of
\* attemptSilentLogin only logs
AuthenticatedAfterProbe(o, authenticated) == authenticated

\* useEffect(() => { attemptSilentLogin() }, [instance, isAuthenticated, isLoading])
\* up to its await, with the values of the render it belongs to
AttemptSilentLoginEffect ==
    /\ pendingEffects # <<>>
    /\ Head(pendingEffects) = "probe"
    /\ pendingEffects' = Tail(pendingEffects)
    /\ IF shown.instance # 0 /\ ~shown.isAuthenticated /\ ~shown.isLoading
       THEN IF Len(msalAccounts) > 0
            THEN probe' = [probe EXCEPT !.log = "User has cached tokens"]
            ELSE /\ probe.inFlight < MaxProbes
                 /\ probe' = [probe EXCEPT !.inFlight = probe.inFlight + 1]
       ELSE UNCHANGED probe
    /\ UNCHANGED <<shown, childSaw>>

\* fetch('/.auth/me') of attemptSilentLogin settles
ProbeSettled(o) ==
    /\ probe.inFlight > 0
    /\ probe' = [inFlight |-> probe.inFlight - 1,
                 log |-> IF o = "claims" THEN "User authenticated via App Service"
                         ELSE IF o \in {"neterr", "badjson"}
                         THEN "App Service authentication check failed"
                         ELSE probe.log]
    /\ isAuthenticated' = AuthenticatedAfterProbe(o, isAuthenticated)
    /\ UNCHANGED <<instance, accounts, isLoading, error, initPc, initCall, msalConfig,
                   scopeRequests, acq>>
    /\ UNCHANGED <<shown, pendingEffects, childSaw>>

\* the first commit has rendered the loading view with instance null; its
\* effects have run
InitGate ==
    /\ shown = [view |-> "loading", instance |-> 0, isAuthenticated |-> FALSE,
                isLoading |-> TRUE]
    /\ probe = IdleProbe
    /\ pendingEffects = <<>>
    /\ childSaw = [mounted |-> FALSE, instance |-> 0, handle |-> 0]

\* ------------------------------------------------------------------ useApi
ApiNames ==
    {"chatApi", "getAllUploadStatus", "deleteItem", "resubmitItem", "getInfo",
     "getWarningBanner", "getApplicationTitle", "getStatusLog", "getTags",
     "getFeatureFlags", "getMaxCSVFileSize", "fetchCitationFile", "uploadFile"}

\* the function exported by authenticatedApi.ts for an API function
Authenticated(name) == name \o "Authenticated"

\* name: useAuthenticated ? nameAuthenticated : nameAuthenticated
createApiProxy(useAuthenticated) ==
    [name \in ApiNames |->
        IF useAuthenticated THEN Authenticated(name) ELSE Authenticated(name)]

\* const { isAuthenticated } = useAuth(); return createApiProxy(isAuthenticated)
useApi == createApiProxy(isAuthenticated)

\* ------------------------------------------------------ AuthenticatedApiClient
\* The authenticatedFetch invocation: the headers object, the headers of every
\* fetch issued, the result of every getAccessToken call, every status received.
\* A header that is not in the headers object.
NoHeader == ""

IdleReq ==
    [pc |-> "idle", caller |-> "", skipAuth |-> FALSE, body |-> "none",
     headers |-> [ContentType |-> NoHeader, Authorization |-> NoHeader],
     sent |-> <<>>, tokens |-> <<>>, statuses |-> <<>>,
     silent |-> "none", popups |-> 0, result |-> 0, threw |-> FALSE,
     signal |-> FALSE, aborted |-> FALSE, signals |-> <<>>, callerThrew |-> FALSE]

\* public setMsalInstance(instance)
setMsalInstance(h) ==
    /\ apiMsalInstance' = h
    /\ UNCHANGED req

\* the retried request made without the caller's fetch options
IssueFetchRetryWithoutSignal(r) ==
    LET r1 == [r EXCEPT !.sent = Append(r.sent, r.headers),
                        !.signals = Append(r.signals, r.signal /\ Len(r.sent) = 0)]
    IN IF r.signal /\ r.aborted /\ Len(r.sent) = 0
       THEN [r1 EXCEPT !.pc = "done", !.threw = TRUE]
       ELSE [r1 EXCEPT !.pc = "request"]

\* fetch(url, { ...fetchOptions, headers }): the caller's signal, when there is
\* one, is among the fetch options of every call; fetch with a signal that has
\* been aborted already rejects without a network call.
IssueFetch(r) ==
    LET r1 == [r EXCEPT !.sent = Append(r.sent, r.headers),
                        !.signals = Append(r.signals, r.signal)]
    IN IF r.signal /\ r.aborted
       THEN [r1 EXCEPT !.pc = "done", !.threw = TRUE]
       ELSE [r1 EXCEPT !.pc = "request"]

\* what the wrapper makes of the response the dispatcher returned:
\* chatApiAuthenticated throws Error("Unknown error") when status > 299
Returned(r, status) ==
    [r EXCEPT !.pc = "done", !.result = status,
              !.callerThrew = (r.caller = "chatApiAuthenticated" /\ status > 299)]

\* the test of skipAuth left out
ShouldRefreshIgnoringSkipAuth(status, skipAuth) == status = 401

\* every error status instead of 401
ShouldRefreshOnAnyError(status, skipAuth) == status >= 400 /\ ~skipAuth

\* response.status === 403 && !skipAuth
ShouldRefreshOn403(status, skipAuth) == status = 403 /\ ~skipAuth

\* response.status === 401 && !skipAuth
ShouldRefresh(status, skipAuth) == status = 401 /\ ~skipAuth

\* `Bearer ${token}`
Bearer(tok) == "Bearer " \o tok

\* the assignments to headers['Authorization'] left out
AfterTokenNoHeader(r, tok) ==
    LET r1 == [r EXCEPT !.tokens = Append(r.tokens, tok)]
    IN IF Len(r.statuses) = 0 THEN IssueFetch(r1)
       ELSE IF tok # NoToken THEN IssueFetch(r1)
       ELSE Returned(r1, r.statuses[Len(r.statuses)])

\* the retry made whether or not the re-acquisition yielded a token
AfterTokenAlwaysRetries(r, tok) ==
    LET r1 == [r EXCEPT !.tokens = Append(r.tokens, tok)]
        r2 == IF tok # NoToken THEN [r1 EXCEPT !.headers.Authorization = Bearer(tok)]
              ELSE r1
    IN IssueFetch(r2)

\* getAccessToken has returned tok: the first time the header is set when there
\* is a token and the request is made; after a 401 the request is made again
\* only when there is a token, otherwise the response is returned.
AfterToken(r, tok) ==
    LET r1 == [r EXCEPT !.tokens = Append(r.tokens, tok)]
        r2 == IF tok # NoToken THEN [r1 EXCEPT !.headers.Authorization = Bearer(tok)]
              ELSE r1
    IN IF Len(r.statuses) = 0 THEN IssueFetch(r2)
       ELSE IF tok # NoToken THEN IssueFetch(r2)
       ELSE Returned(r1, r.statuses[Len(r.statuses)])

\* getAccessToken up to its first await
GetAccessTokenStart(r) ==
    IF apiMsalInstance = 0 \/ Len(msalAccounts) = 0
    THEN AfterToken(r, NoToken)
    ELSE [r EXCEPT !.pc = "silent"]

\* options.headers: absent, or an object with or without a Content-Type
NoHeaders == [has |-> FALSE, ContentType |-> NoHeader]
Headers(contentType) == [has |-> TRUE, ContentType |-> contentType]
CallerHeaders == {NoHeaders, Headers(NoHeader), Headers("text/plain")}

\* { 'Content-Type': 'application/json', ...(fetchOptions.headers || {}) }
PrepareHeaders(callerHeaders) ==
    [ContentType |-> IF callerHeaders.has /\ callerHeaders.ContentType # NoHeader
                     THEN callerHeaders.ContentType
                     ELSE "application/json",
     Authorization |-> NoHeader]

\* authenticatedFetch up to its first await, for the options of one caller
Dispatched(caller, skipAuth, body, callerHeaders, signal) ==
    LET r == [IdleReq EXCEPT !.caller = caller, !.skipAuth = skipAuth, !.body = body,
                             !.headers = PrepareHeaders(callerHeaders),
                             !.signal = signal]
    IN IF skipAuth THEN IssueFetch(r) ELSE GetAccessTokenStart(r)

authenticatedFetchStart(skipAuth, body, callerHeaders) ==
    /\ req.pc \in {"idle", "done"}
    /\ req' = Dispatched("authenticatedFetch", skipAuth, body, callerHeaders, FALSE)
    /\ UNCHANGED apiMsalInstance

\* const formData = new FormData(); ...
\* apiClient.authenticatedFetch('/upload', { method: 'POST', body: formData,
\*                                            headers: {} })
uploadFileAuthenticated ==
    /\ req.pc \in {"idle", "done"}
    /\ req' = Dispatched("uploadFileAuthenticated", FALSE, "formdata",
                         Headers(NoHeader), FALSE)
    /\ UNCHANGED apiMsalInstance

\* apiClient.post("/chat", {...}, { signal }): a JSON body, no headers of the
\* caller's, the caller's abort signal among the options
chatApiAuthenticated ==
    /\ req.pc \in {"idle", "done"}
    /\ req' = Dispatched("chatApiAuthenticated", FALSE, "json", NoHeaders, TRUE)
    /\ UNCHANGED apiMsalInstance

\* the caller aborts its signal: a fetch in flight with the signal rejects
\* (AbortError); a token acquisition in flight does not take the signal and
\* goes on, and the fetch that follows it rejects at once.
AbortSignalled ==
    /\ req.signal /\ ~req.aborted
    /\ req.pc \in {"silent", "popup", "request"}
    /\ req' = IF req.pc = "request" /\ req.signals[Len(req.signals)]
              THEN [req EXCEPT !.aborted = TRUE, !.pc = "done", !.threw = TRUE]
              ELSE [req EXCEPT !.aborted = TRUE]
    /\ UNCHANGED apiMsalInstance

\* this.msalInstance.acquireTokenSilent(...) settles
ApiSilentResult(o) ==
    /\ req.pc = "silent"
    /\ LET r == [req EXCEPT !.silent = o.kind] IN
       req' = IF o.kind = "token" THEN AfterToken(r, o.token)
              ELSE IF Len(msalAccounts) > 0
              THEN [r EXCEPT !.pc = "popup", !.popups = r.popups + 1]
              ELSE AfterToken(r, NoToken)
    /\ UNCHANGED apiMsalInstance

\* this.msalInstance.acquireTokenPopup(...) settles
ApiPopupResult(o) ==
    /\ req.pc = "popup"
    /\ req' = AfterToken(req, o.token)
    /\ UNCHANGED apiMsalInstance

\* fetch settles: a network failure rejects; a status is looked at once
FetchSettled(o) ==
    /\ req.pc = "request"
    /\ req' = IF o = 0
              THEN [req EXCEPT !.pc = "done", !.threw = TRUE]
              ELSE LET r == [req EXCEPT !.statuses = Append(req.statuses, o)] IN
                   IF Len(req.statuses) = 0 /\ ShouldRefresh(o, req.skipAuth)
                   THEN GetAccessTokenStart(r)
                   ELSE Returned(r, o)
    /\ UNCHANGED apiMsalInstance

\* the identity library's account cache changes (sign-in, sign-out elsewhere)
AccountCacheChanges(xs) ==
    /\ msalAccounts # xs
    /\ msalAccounts' = xs

\* 0: the fetch promise rejects (network failure)
FetchOutcomes == {0, 200, 401, 403, 500}
Bodies == {"none", "json", "formdata"}

InitSession ==
    /\ instance = 0
    /\ accounts = <<>>
    /\ isAuthenticated = FALSE
    /\ isLoading = TRUE
    /\ error = NoError
    /\ initPc = "mount"
    /\ initCall = 0
    /\ msalConfig = InitialMsalConfig
    /\ scopeRequests = InitialScopeRequests
    /\ acq = IdleAcq
    /\ signIn = IdleOp
    /\ signOut = IdleOp

AccountCaches == { <<>>, <<"alice">>, <<"bob", "alice">> }

\* ------------------------------------------------------------ specifications
InitApi ==
    /\ apiMsalInstance = 0
    /\ req = IdleReq

\* SpecResolve: invocations one after the other, every combination of sources.
InitResolve ==
    /\ InitConfig(InjectedChoices, EnvChoices)
    /\ InitSession
    /\ msalAccounts = <<>>
    /\ InitApi
    /\ InitGate

\* the other components stand still
OnlyConfig == UNCHANGED <<sessVars, libVars, apiVars, opVars, gateVars>>
OnlySession == UNCHANGED <<cfgVars, libVars, apiVars, opVars, gateVars>>

NextResolve ==
    \/ \E c \in Callers : NoneInFlight /\ LoadRuntimeConfigStart(c) /\ OnlyConfig
    \/ \E c \in Callers : \E o \in BackendOutcomes : BackendResponse(c, o) /\ OnlyConfig
    \/ \E c \in Callers : \E o \in AuthMeOutcomes : AuthMeResponse(c, o) /\ OnlyConfig
    \/ NoneInFlight /\ clearConfigCache /\ OnlyConfig

SpecResolve == InitResolve /\ [][NextResolve]_vars

\* SpecCache: invocations may overlap (each await yields to the event loop).
InitCache ==
    /\ InitConfig(InjectedChoicesSmall, EnvChoicesSmall)
    /\ InitSession
    /\ msalAccounts = <<>>
    /\ InitApi
    /\ InitGate

NextCache ==
    \/ \E c \in Callers : LoadRuntimeConfigStart(c) /\ OnlyConfig
    \/ \E c \in Callers : \E o \in BackendOutcomesSmall : BackendResponse(c, o) /\ OnlyConfig
    \/ \E c \in Callers : \E o \in AuthMeOutcomesSmall : AuthMeResponse(c, o) /\ OnlyConfig
    \/ clearConfigCache /\ OnlyConfig

SpecCache == InitCache /\ [][NextCache]_vars

\* SpecSession: one page load of the AuthProvider with the gate on top.
InitSessionSpec ==
    /\ InitConfig(InjectedChoicesSmall, EnvChoicesSmall)
    /\ InitSession
    /\ msalAccounts \in AccountCaches
    /\ InitApi
    /\ InitGate

NextSession ==
    \/ InitializeMsalStart /\ UNCHANGED <<libVars, apiVars, opVars, gateVars>>
    \/ \E c \in Callers : \E o \in BackendOutcomesSmall :
          c = initCall /\ BackendResponse(c, o) /\ OnlyConfig
    \/ \E c \in Callers : \E o \in AuthMeOutcomesSmall :
          c = initCall /\ AuthMeResponse(c, o) /\ OnlyConfig
    \/ \E ctor \in {"ok", "msal: invalid configuration"} :
          InitConfigLoaded(ctor) /\ OnlySession
    \/ \E o \in {"ok"} \cup InitFailures :
          MsalInitialized(o) /\ UNCHANGED <<cfgVars, apiVars, opVars, gateVars>>
    \/ \E o \in RedirectOutcomes :
          RedirectHandled(o) /\ UNCHANGED <<cfgVars, apiVars, opVars, gateVars>>
    \/ \E sc \in ScopeChoices : AcquireTokenSilentlyStart(sc) /\ OnlySession
    \/ \E o \in SilentOutcomes : SilentTokenResult(o) /\ OnlySession
    \/ \E o \in PopupOutcomes : PopupTokenResult(o) /\ OnlySession
    \/ LoginStart /\ UNCHANGED <<cfgVars, libVars, apiVars, gateVars>>
    \/ \E o \in RedirectFlowOutcomes :
          LoginRedirectSettled(o) /\ UNCHANGED <<cfgVars, libVars, apiVars, gateVars>>
    \/ LogoutStart /\ UNCHANGED <<cfgVars, libVars, apiVars, gateVars>>
    \/ \E o \in RedirectFlowOutcomes :
          LogoutRedirectSettled(o) /\ UNCHANGED <<cfgVars, apiVars, gateVars>>

SpecSession == InitSessionSpec /\ [][NextSession]_vars

\* The steps of initializeMsal: each awaits a promise of the browser or of the
\* identity library (a fetch, import(), initialize(), handleRedirectPromise()).
InitializeMsalStep ==
    \/ InitializeMsalStart /\ UNCHANGED <<libVars, apiVars, opVars, gateVars>>
    \/ \E c \in Callers : \E o \in BackendOutcomesSmall :
          c = initCall /\ BackendResponse(c, o) /\ OnlyConfig
    \/ \E c \in Callers : \E o \in AuthMeOutcomesSmall :
          c = initCall /\ AuthMeResponse(c, o) /\ OnlyConfig
    \/ \E ctor \in {"ok", "msal: invalid configuration"} :
          InitConfigLoaded(ctor) /\ OnlySession
    \/ \E o \in {"ok"} \cup InitFailures :
          MsalInitialized(o) /\ UNCHANGED <<cfgVars, apiVars, opVars, gateVars>>
    \/ \E o \in RedirectOutcomes :
          RedirectHandled(o) /\ UNCHANGED <<cfgVars, apiVars, opVars, gateVars>>

\* SpecSessionFair: SpecSession where the effect runs on mount and every promise
\* initializeMsal awaits settles.
SpecSessionFair == SpecSession /\ WF_vars(InitializeMsalStep)

\* SpecGate: one page load of the AuthProvider with the commits and effects of
\* AuthenticatedApp; a commit may come after any number of state updates.
NextGate ==
    \/ InitializeMsalStart /\ UNCHANGED <<libVars, apiVars, opVars, gateVars>>
    \/ \E c \in Callers : \E o \in BackendOutcomesSmall :
          c = initCall /\ BackendResponse(c, o) /\ OnlyConfig
    \/ \E c \in Callers : \E o \in AuthMeOutcomesSmall :
          c = initCall /\ AuthMeResponse(c, o) /\ OnlyConfig
    \/ \E ctor \in {"ok", "msal: invalid configuration"} :
          InitConfigLoaded(ctor) /\ OnlySession
    \/ \E o \in {"ok"} \cup InitFailures :
          MsalInitialized(o) /\ UNCHANGED <<cfgVars, apiVars, opVars, gateVars>>
    \/ \E o \in RedirectOutcomes :
          RedirectHandled(o) /\ UNCHANGED <<cfgVars, apiVars, opVars, gateVars>>
    \/ LoginStart /\ UNCHANGED <<cfgVars, libVars, apiVars, gateVars>>
    \/ \E o \in RedirectFlowOutcomes :
          LoginRedirectSettled(o) /\ UNCHANGED <<cfgVars, libVars, apiVars, gateVars>>
    \/ LogoutStart /\ UNCHANGED <<cfgVars, libVars, apiVars, gateVars>>
    \/ \E o \in RedirectFlowOutcomes :
          LogoutRedirectSettled(o) /\ UNCHANGED <<cfgVars, apiVars, gateVars>>
    \/ GateCommit /\ UNCHANGED <<cfgVars, sessVars, libVars, apiVars, opVars>>
    \/ ChildrenMountEffect /\ UNCHANGED <<cfgVars, sessVars, libVars, opVars>>
    \/ GateInstanceEffect /\ UNCHANGED <<cfgVars, sessVars, libVars, opVars>>
    \/ AttemptSilentLoginEffect /\ UNCHANGED <<cfgVars, sessVars, libVars, apiVars, opVars>>
    \/ \E o \in ProbeOutcomes :
          ProbeSettled(o) /\ UNCHANGED <<cfgVars, libVars, apiVars, opVars>>

SpecGate == InitSessionSpec /\ [][NextGate]_vars

\* SpecReload: the AuthProvider is initialized, and initialized again after a
\* remount, with clearConfigCache in between or not.
NextReload ==
    \/ InitializeMsalStart /\ UNCHANGED <<libVars, apiVars, opVars, gateVars>>
    \/ \E c \in Callers : \E o \in BackendOutcomesSmall :
          c = initCall /\ BackendResponse(c, o) /\ OnlyConfig
    \/ \E c \in Callers : \E o \in AuthMeOutcomesSmall :
          c = initCall /\ AuthMeResponse(c, o) /\ OnlyConfig
    \/ \E ctor \in {"ok", "msal: invalid configuration"} :
          InitConfigLoaded(ctor) /\ OnlySession
    \/ \E o \in {"ok"} \cup InitFailures :
          MsalInitialized(o) /\ UNCHANGED <<cfgVars, apiVars, opVars, gateVars>>
    \/ \E o \in RedirectOutcomes :
          RedirectHandled(o) /\ UNCHANGED <<cfgVars, apiVars, opVars, gateVars>>
    \/ clearConfigCache /\ OnlyConfig
    \/ AuthProviderRemount /\ OnlySession

SpecReload == InitSessionSpec /\ [][NextReload]_vars

\* SpecApi: requests through the singleton apiClient.
InitApiSpec ==
    /\ InitConfig({NoInjected}, EnvObjects({Undefined}, {Undefined}, {Undefined}))
    /\ InitSession
    /\ msalAccounts \in AccountCaches
    /\ InitApi
    /\ InitGate

OnlyApi == UNCHANGED <<cfgVars, sessVars, libVars, opVars, gateVars>>

NextApi ==
    \/ \E h \in {1} : setMsalInstance(h) /\ OnlyApi
    \/ \E sk \in BOOLEAN : \E b \in Bodies : \E h \in CallerHeaders :
          authenticatedFetchStart(sk, b, h) /\ OnlyApi
    \/ uploadFileAuthenticated /\ OnlyApi
    \/ chatApiAuthenticated /\ OnlyApi
    \/ AbortSignalled /\ OnlyApi
    \/ \E o \in SilentOutcomes : ApiSilentResult(o) /\ OnlyApi
    \/ \E o \in PopupOutcomes : ApiPopupResult(o) /\ OnlyApi
    \/ \E o \in FetchOutcomes : FetchSettled(o) /\ OnlyApi
    \/ \E xs \in AccountCaches :
          AccountCacheChanges(xs) /\ UNCHANGED <<cfgVars, sessVars, apiVars, opVars, gateVars>>

SpecApi == InitApiSpec /\ [][NextApi]_vars

\* ------------------------------------------------------------------ claims
\* An invocation that went through the sources (not the cached path) and returned.
Resolved(c) == call[c].pc = "done" /\ call[c].authMe.kind # "none"

\* The clientId each source supplied to invocation c, highest precedence first:
\* backend, /.auth/me first claim, injected global, build-time env.
SuppliedClientIds(c) ==
    << IF call[c].backend.kind = "json" THEN call[c].backend.clientId ELSE Undefined,
       IF call[c].authMe.kind = "claims" THEN call[c].authMe.client_id ELSE Undefined,
       IF injected.present THEN injected.AZURE_CLIENT_ID ELSE Undefined,
       viteEnv.VITE_AZURE_CLIENT_ID >>

Supplying(s) == { i \in 1 .. Len(s) : Truthy(s[i]) }
HighestPrecedence(s) ==
    s[CHOOSE i \in Supplying(s) : \A j \in Supplying(s) : i <= j]

\* C1: whatever subset of the four sources supplies a clientId, the resolved
\* clientId is the one of the highest-precedence source that supplies one
\* (backend > /.auth/me > injected global > build-time env).
C1_ClientIdPrecedence ==
    \A c \in Callers :
        Resolved(c) /\ Supplying(SuppliedClientIds(c)) # {} =>
            call[c].ret.AZURE_CLIENT_ID = HighestPrecedence(SuppliedClientIds(c))

\* all four sources supply conflicting values and the backend's is resolved
C1_Witness ==
    \E c \in Callers :
        /\ Resolved(c)
        /\ SuppliedClientIds(c) = <<Str("c1"), Str("c2"), Str("c3"), Str("c4")>>
        /\ call[c].ret.AZURE_CLIENT_ID = Str("c1")

\* C2: a clientId, tenantId or authority supplied by the backend is never
\* replaced by a value from a lower-precedence source.
C2_BackendFieldsSurvive ==
    \A c \in Callers :
        Resolved(c) /\ call[c].backend.kind = "json" =>
            /\ Truthy(call[c].backend.clientId) =>
                   call[c].ret.AZURE_CLIENT_ID = call[c].backend.clientId
            /\ Truthy(call[c].backend.tenantId) =>
                   call[c].ret.AZURE_TENANT_ID = call[c].backend.tenantId
            /\ Truthy(call[c].backend.authority) =>
                   call[c].ret.AZURE_AUTHORITY = call[c].backend.authority

\* C7: loadRuntimeConfig never rejects; a failed source leaves the config as it
\* was and the next source is still consulted, and the invocation returns a
\* RuntimeConfig object.
C7_NeverRejects ==
    \A c \in Callers :
        /\ call[c].pc # "rejected"
        /\ call[c].pc = "awaitAuthMe" /\ call[c].backend.kind # "json" =>
               call[c].config = EmptyConfig(call[c].config.id)
        /\ Resolved(c) =>
               /\ call[c].fetches = 2
               /\ call[c].ret.id # 0
               /\ call[c].ret.API_SCOPES.has
               /\ Truthy(call[c].ret.AZURE_AUTHORITY)

\* both network sources failed by throwing, and the invocation still returned
C7_Witness ==
    \E c \in Callers :
        /\ Resolved(c)
        /\ call[c].backend.kind \in {"neterr", "badjson", "nullbody"}
        /\ call[c].authMe.kind \in {"neterr", "badjson", "nullclaim"}
        /\ call[c].ret.id # 0

\* C8: an invocation that starts after another one has returned, with no
\* clearConfigCache in between, returns the very object the earlier one
\* returned and issues no request to /getMsalConfig or /.auth/me.
C8_CacheIdempotent ==
    [][ \A c \in Callers :
          calls' = calls + 1 /\ c = calls' /\ lastReturned.id # 0 =>
              /\ call'[c].pc = "done"
              /\ call'[c].ret = lastReturned
              /\ call'[c].fetches = 0
              /\ backendQueries' = backendQueries
              /\ authMeQueries' = authMeQueries ]_vars

\* a second invocation has returned the first one's object without a request
C8_Witness ==
    /\ clears = 0
    /\ call[2].pc = "done"
    /\ call[2].fetches = 0
    /\ call[2].ret.id = 1
    /\ backendQueries = 1
    /\ authMeQueries = 1

\* C9: while the cache has not been cleared, the source endpoints are queried
\* at most once and all invocations return the same object (callers arriving
\* during the first resolution are coalesced onto it).
C9_Coalesced ==
    clears = 0 =>
        /\ backendQueries <= 1
        /\ authMeQueries <= 1
        /\ \A c, d \in Callers :
               call[c].pc = "done" /\ call[d].pc = "done" => call[c].ret = call[d].ret

\* C10: after clearConfigCache, getCachedConfig is null until the next
\* invocation; that invocation queries the sources again, and on its return the
\* cache holds exactly the object it has newly resolved.
C10_ClearForcesReload ==
    /\ [](clearPending => getCachedConfig = NullConfig)
    /\ [][ \A c \in Callers :
             /\ calls' = calls + 1 /\ c = calls' /\ clearPending =>
                    /\ call'[c].pc = "awaitBackend"
                    /\ backendQueries' = backendQueries + 1
             /\ call[c].afterClear /\ call[c].pc # "done" /\ call'[c].pc = "done" =>
                    /\ call'[c].fetches = 2
                    /\ authMeQueries' = authMeQueries
                    /\ getCachedConfig' = call'[c].ret
                    /\ getCachedConfig'.id = call[c].config.id
                    /\ getCachedConfig'.id >= nextId - 1 ]_vars

\* a config was cached, the cache was cleared, and the next invocation resolved
\* and cached a new object
C10_Witness ==
    /\ clears = 1
    /\ call[2].pc = "done"
    /\ call[2].afterClear
    /\ call[2].fetches = 2
    /\ getCachedConfig = call[2].ret
    /\ getCachedConfig.id = 2

\* C4: a silent attempt that fails with an interaction-required error is
\* followed by exactly one popup attempt, for the same account; when the popup
\* fails too, the invocation returns null, sets the error, and does not throw.
C4_SilentThenPopup ==
    /\ [](/\ acq.popups <= 1
          /\ acq.silent = "interaction_required" =>
                 /\ acq.popups = 1
                 /\ acq.popupAccount = acq.account
                 /\ acq.pc \in {"popup", "returned"}
          /\ acq.popups = 1 => acq.silent = "interaction_required")
    /\ [][ acq.pc = "popup" /\ acq'.pc # "popup" /\ acq'.popup = "fail" =>
             /\ acq'.pc = "returned"
             /\ acq'.result = NoToken
             /\ ~acq'.threw
             /\ error' = "Failed to acquire token" ]_vars

\* the popup that followed an interaction-required failure has failed
C4_Witness ==
    /\ acq.pc = "returned"
    /\ acq.silent = "interaction_required"
    /\ acq.popup = "fail"
    /\ acq.popups = 1
    /\ acq.popupAccount = "bob"
    /\ acq.result = NoToken
    /\ error = "Failed to acquire token"

\* initialization has ended in the configuration error
ConfigurationFailed ==
    /\ initPc = "failed"
    /\ error = ClientIdError
    /\ instance = 0
    /\ ~isLoading

\* C5: when initialization ends in a configuration error the gate shows a
\* blocking state with the error message and not the wrapped application.
C5_ConfigErrorBlocks ==
    ConfigurationFailed =>
        /\ GateRender.view # "children"
        /\ GateRender.notice = error

\* C6: the gate shows the loading indicator while isLoading; once not loading
\* and accounts is empty it shows the sign-in affordance; it shows the wrapped
\* application only when an account exists.
C6_GateMapping ==
    /\ isLoading => GateRender.view = "loading"
    /\ ~isLoading /\ Len(accounts) = 0 => GateRender.view = "signin"
    /\ GateRender.view = "children" => Len(accounts) > 0

\* C3 as stated: a 401 on a request with skipAuth=false is always followed by
\* exactly one token re-acquisition and exactly one retried request.
C3_AlwaysOneRetry ==
    req.pc = "done" /\ ~req.skipAuth /\ Len(req.statuses) > 0 /\ req.statuses[1] = 401 =>
        /\ Len(req.tokens) = 2
        /\ Len(req.sent) = 2

\* C3 amended: a 401 on a request with skipAuth=false is followed by exactly
\* one token re-acquisition; the request is retried exactly once when that
\* yields a token and not at all when it yields none; whatever the retried
\* request returns (a 401 too) goes to the caller, with no further token
\* acquisition and no further request.
C3_RetryOnce ==
    /\ Len(req.tokens) <= 2
    /\ Len(req.sent) <= 2
    /\ Len(req.sent) = 2 => ~req.skipAuth /\ req.statuses[1] = 401 /\ req.tokens[2] # NoToken
    /\ req.pc = "done" /\ ~req.skipAuth /\ Len(req.statuses) > 0 /\ req.statuses[1] = 401 =>
          /\ Len(req.tokens) = 2
          /\ Len(req.sent) = IF req.tokens[2] # NoToken THEN 2 ELSE 1
          /\ Len(req.sent) = 2 =>
                 /\ req.sent[2].Authorization = Bearer(req.tokens[2])
                 /\ req.threw \/ req.result = req.statuses[2]
          /\ Len(req.sent) = 1 => req.result = 401 /\ ~req.threw

\* the retried request has returned 401 as well, and that went to the caller
C3_Witness ==
    /\ req.pc = "done"
    /\ ~req.skipAuth
    /\ req.statuses = <<401, 401>>
    /\ Len(req.tokens) = 2
    /\ Len(req.sent) = 2
    /\ req.result = 401

\* The value each source supplied to invocation c for the authority.
SuppliedAuthorities(c) ==
    << IF call[c].backend.kind = "json" THEN call[c].backend.authority ELSE Undefined,
       IF call[c].authMe.kind = "claims" THEN call[c].authMe.authority ELSE Undefined,
       IF injected.present THEN injected.AZURE_AUTHORITY ELSE Undefined,
       viteEnv.VITE_AZURE_AUTHORITY >>

\* The value each source supplied to invocation c for the tenant identifier
\* (/.auth/me supplies one only through its authority).
SuppliedTenantIds(c) ==
    << IF call[c].backend.kind = "json" THEN call[c].backend.tenantId ELSE Undefined,
       IF injected.present THEN injected.AZURE_TENANT_ID ELSE Undefined,
       viteEnv.VITE_AZURE_TENANT_ID >>

\* window.__RUNTIME_CONFIG__ carries an API_SCOPES array
ExplicitScopes == injected.present /\ injected.API_SCOPES.has

\* C11: after any resolution the resolved API_SCOPES contains 'User.Read',
\* whatever the injected global supplies for API_SCOPES (nothing, an empty
\* array, an array without 'User.Read').
C11_BaselineScopePresent ==
    \A c \in Callers :
        Resolved(c) =>
            /\ call[c].ret.API_SCOPES.has
            /\ Includes(call[c].ret.API_SCOPES.items, UserRead)

\* C12: with no API_SCOPES from any source the resolved scopes are exactly
\* ['User.Read', 'api://{clientId}/access_as_user'] when a clientId was
\* resolved, and exactly ['User.Read'] when none was.
C12_DefaultScopes ==
    \A c \in Callers :
        Resolved(c) /\ ~ExplicitScopes =>
            LET cid == call[c].ret.AZURE_CLIENT_ID IN
            call[c].ret.API_SCOPES =
                IF Truthy(cid)
                THEN Array(<<Str("User.Read"),
                             <<"api:", "">> \o cid \o <<"access_as_user">>>>)
                ELSE Array(<<Str("User.Read")>>)

\* no source gave scopes, the injected global gave the clientId, and the
\* resolved scopes are the baseline scope followed by the application scope
C12_Witness ==
    \E c \in Callers :
        /\ Resolved(c)
        /\ ~ExplicitScopes
        /\ call[c].ret.AZURE_CLIENT_ID = Str("c3")
        /\ call[c].ret.API_SCOPES.items =
               <<Str("User.Read"), <<"api:", "", "c3", "access_as_user">>>>

\* C13: when some source supplies a tenant identifier T and no source supplies
\* an authority, the resolved authority is
\* 'https://login.microsoftonline.com/' followed by T.
C13_AuthorityFromTenant ==
    \A c \in Callers :
        /\ Resolved(c)
        /\ Supplying(SuppliedAuthorities(c)) = {}
        /\ Supplying(SuppliedTenantIds(c)) # {}
        => /\ call[c].ret.AZURE_TENANT_ID = HighestPrecedence(SuppliedTenantIds(c))
           /\ call[c].ret.AZURE_AUTHORITY =
                  <<"https:", "", "login.microsoftonline.com">>
                      \o call[c].ret.AZURE_TENANT_ID

\* only the build-time environment gave a tenant, nobody gave an authority
C13_Witness ==
    \E c \in Callers :
        /\ Resolved(c)
        /\ Supplying(SuppliedAuthorities(c)) = {}
        /\ SuppliedTenantIds(c) = <<Undefined, Undefined, Str("t4")>>
        /\ call[c].ret.AZURE_AUTHORITY =
               <<"https:", "", "login.microsoftonline.com", "t4">>

\* C14: after every completed resolution the resolved authority is a
\* non-empty string; when no source supplies an authority or a tenant
\* identifier it is 'https://login.microsoftonline.com/common'.
C14_AuthorityNeverEmpty ==
    \A c \in Callers :
        Resolved(c) =>
            /\ call[c].ret.AZURE_AUTHORITY # Undefined
            /\ call[c].ret.AZURE_AUTHORITY # EmptyStr
            /\ Supplying(SuppliedAuthorities(c)) = {}
                  /\ Supplying(SuppliedTenantIds(c)) = {}
               => call[c].ret.AZURE_AUTHORITY =
                      <<"https:", "", "login.microsoftonline.com", "common">>

\* both network sources failed, nothing was injected or built in, and the
\* resolved authority is the generic issuer
C14_Witness ==
    \E c \in Callers :
        /\ Resolved(c)
        /\ call[c].backend.kind = "neterr"
        /\ call[c].authMe.kind = "neterr"
        /\ ~injected.present
        /\ viteEnv.VITE_AZURE_AUTHORITY = Undefined
        /\ viteEnv.VITE_AZURE_TENANT_ID = Undefined
        /\ call[c].ret.AZURE_AUTHORITY = CommonAuthority

\* C15: when the resolved clientId is empty, initialization ends with the
\* configuration error set, no client handle (instance null), no accounts and
\* isAuthenticated false.
C15_EmptyClientIdFails ==
    /\ initCall # 0
    /\ call[initCall].pc = "done"
    /\ ~Truthy(call[initCall].ret.AZURE_CLIENT_ID)
    /\ initPc # "config"
    => /\ initPc = "failed"
       /\ error = ClientIdError
       /\ instance = 0
       /\ accounts = <<>>
       /\ ~isAuthenticated

\* no source gave a clientId although the library holds a cached account, and
\* initialization has ended in the configuration error
C15_Witness ==
    /\ initPc = "failed"
    /\ call[initCall].ret.AZURE_CLIENT_ID = Undefined
    /\ Len(msalAccounts) > 0
    /\ error = ClientIdError
    /\ instance = 0
    /\ accounts = <<>>

InitEnded == initPc \in {"failed", "ready"}

\* C16: initialization always ends, and on every exit path (configuration
\* error, construction or initialize() failure, handleRedirectPromise()
\* failure, success) it ends with isLoading false; isLoading never becomes true
\* again.
C16_LoadingEnds ==
    /\ <>InitEnded
    /\ [](InitEnded => ~isLoading)
    /\ [][~isLoading => ~isLoading']_vars

\* initialization has failed in handleRedirectPromise() and isLoading is false
C16_Witness ==
    /\ initPc = "failed"
    /\ instance # 0
    /\ error \in InitFailures
    /\ ~isLoading

\* C17: in every state of the AuthProvider, isAuthenticated is true exactly
\* when accounts is not empty.
C17_AuthenticatedIffAccounts ==
    isAuthenticated <=> Len(accounts) > 0

\* a logout has completed after the session was signed in
C17_Witness ==
    /\ signOut.pc = "returned"
    /\ signOut.redirects = 1
    /\ accounts = <<>>
    /\ ~isAuthenticated
    /\ initPc = "ready"

\* C18: login() and logout() invoked while instance is null throw the
\* not-initialized error, start no redirect flow, and leave accounts,
\* isAuthenticated and isLoading as they were.
C18_NotInitialized ==
    [][ /\ instance = 0 /\ signIn' # signIn =>
            /\ signIn'.pc = "thrown"
            /\ signIn'.threw = NotInitializedError
            /\ signIn'.redirects = 0
            /\ UNCHANGED <<accounts, isAuthenticated, isLoading>>
        /\ instance = 0 /\ signOut' # signOut =>
            /\ signOut'.pc = "thrown"
            /\ signOut'.threw = NotInitializedError
            /\ signOut'.redirects = 0
            /\ UNCHANGED <<accounts, isAuthenticated, isLoading>> ]_vars

\* both were invoked while initialization was still loading the configuration
C18_Witness ==
    /\ instance = 0
    /\ isLoading
    /\ signIn.pc = "thrown"
    /\ signIn.threw = NotInitializedError
    /\ signOut.pc = "thrown"
    /\ signOut.threw = NotInitializedError

\* C19: login() with a client handle starts the redirect flow exactly when
\* the handle has no cached account; with a cached account it sets accounts
\* and isAuthenticated and returns without a redirect.
C19_LoginRedirectIffNoAccount ==
    [][ instance # 0 /\ signIn.pc # "redirect" /\ signIn' # signIn =>
          IF Len(msalAccounts) = 0
          THEN /\ signIn'.pc = "redirect"
               /\ signIn'.redirects = 1
               /\ signIn'.request.scopes = <<Str("User.Read")>>
               /\ signIn'.request.prompt = "select_account"
          ELSE /\ signIn'.pc = "returned"
               /\ signIn'.redirects = 0
               /\ accounts' = msalAccounts
               /\ isAuthenticated' ]_vars

\* after a logout emptied the session, login() found the other cached account
\* and signed the session in without a redirect
C19_Witness ==
    /\ signOut.pc = "returned"
    /\ signOut.request.account = "bob"
    /\ signIn.pc = "returned"
    /\ signIn.redirects = 0
    /\ accounts = <<"alice">>
    /\ isAuthenticated

\* C20: logout() with a cached account starts exactly one redirect sign-out,
\* for the first cached account and with the current origin as post-logout
\* URL; when it completes, accounts is empty and isAuthenticated false; when it
\* fails, the error is set, the failure is thrown to the caller, and accounts
\* and isAuthenticated are left as they were.
C20_Logout ==
    /\ [][ instance # 0 /\ signOut.pc # "redirect" /\ signOut' # signOut
             /\ Len(msalAccounts) > 0 =>
               /\ signOut'.pc = "redirect"
               /\ signOut'.redirects = 1
               /\ signOut'.request.account = msalAccounts[1]
               /\ signOut'.request.postLogoutRedirectUri = Origin
               /\ UNCHANGED <<accounts, isAuthenticated>> ]_vars
    /\ [][ signOut.pc = "redirect" /\ signOut'.pc = "returned" =>
               /\ signOut'.redirects = 1
               /\ signOut'.threw = ""
               /\ accounts' = <<>>
               /\ ~isAuthenticated' ]_vars
    /\ [][ signOut.pc = "redirect" /\ signOut'.pc = "thrown" =>
               /\ signOut'.redirects = 1
               /\ signOut'.threw \in RedirectFlowOutcomes \ {"ok"}
               /\ error' = "Logout failed"
               /\ UNCHANGED <<accounts, isAuthenticated>> ]_vars
    /\ [](signOut.redirects <= 1)

\* a sign-out of the first of two cached accounts has failed while the session
\* was signed in
C20_Witness ==
    /\ signOut.pc = "thrown"
    /\ signOut.redirects = 1
    /\ signOut.request.account = "bob"
    /\ signOut.request.postLogoutRedirectUri = Origin
    /\ error = "Logout failed"
    /\ accounts = <<"bob", "alice">>
    /\ isAuthenticated

\* C21 as stated: a failed login redirect or logout redirect sets the error,
\* leaves the session signed out, and is not retried.
C21_FailedFlowSignedOut ==
    [][ \/ signIn.pc = "redirect" /\ signIn'.pc = "thrown"
        \/ signOut.pc = "redirect" /\ signOut'.pc = "thrown"
        => /\ error' # NoError
           /\ accounts' = <<>>
           /\ ~isAuthenticated' ]_vars

\* C21 amended: a failed login redirect or logout redirect sets the error, is
\* thrown to the caller and is not retried (one redirect per invocation); it
\* leaves accounts and isAuthenticated as they were, signed in or signed out.
C21_FailedFlowKeepsSession ==
    /\ [](signIn.redirects <= 1 /\ signOut.redirects <= 1)
    /\ [][ signIn.pc = "redirect" /\ signIn' # signIn =>
              signIn'.pc \in {"returned", "thrown"} ]_vars
    /\ [][ signOut.pc = "redirect" /\ signOut' # signOut =>
              signOut'.pc \in {"returned", "thrown"} ]_vars
    /\ [][ signIn.pc = "redirect" /\ signIn'.pc = "thrown" =>
              /\ error' = "Login failed"
              /\ signIn'.threw # ""
              /\ UNCHANGED <<accounts, isAuthenticated>> ]_vars
    /\ [][ signOut.pc = "redirect" /\ signOut'.pc = "thrown" =>
              /\ error' = "Logout failed"
              /\ signOut'.threw # ""
              /\ UNCHANGED <<accounts, isAuthenticated>> ]_vars

\* a login redirect has failed and the session is signed out with the error set
C21_Witness ==
    /\ signIn.pc = "thrown"
    /\ signIn.redirects = 1
    /\ signIn.threw = "msal: interaction_in_progress"
    /\ error = "Login failed"
    /\ accounts = <<>>
    /\ ~isAuthenticated
    /\ instance # 0

\* C22: acquireTokenSilently invoked with no client handle, or not
\* authenticated, or with no account returns null, does not throw, does not
\* call the identity library, and leaves the error as it was.
C22_EarlyNull ==
    [][ /\ acq.pc \in {"idle", "returned"}
        /\ acq' # acq
        /\ instance = 0 \/ ~isAuthenticated \/ Len(accounts) = 0
        => /\ acq'.pc = "returned"
           /\ acq'.result = NoToken
           /\ ~acq'.threw
           /\ ~acq'.library
           /\ acq'.silent = "none"
           /\ acq'.popups = 0
           /\ error' = error ]_vars

\* the handle exists but the session is signed out, with an error showing, and
\* the invocation has returned null
C22_Witness ==
    /\ instance # 0
    /\ ~isAuthenticated
    /\ error = "Logout failed"
    /\ acq.pc = "returned"
    /\ acq.scopes = <<Str("api.custom")>>
    /\ ~acq.library
    /\ acq.result = NoToken

\* C23: when the silent attempt fails with anything but an
\* interaction-required error, no popup is attempted, the error is set, and
\* the invocation returns null without throwing.
C23_OtherFailureNoPopup ==
    [][ acq.pc = "silent" /\ acq' # acq
          /\ acq'.silent \notin {"token", "interaction_required"}
        => /\ acq'.pc = "returned"
           /\ acq'.popups = 0
           /\ acq'.popup = "none"
           /\ acq'.result = NoToken
           /\ ~acq'.threw
           /\ error' = "Failed to acquire token silently" ]_vars

\* the silent attempt has failed with another error and null was returned
C23_Witness ==
    /\ acq.pc = "returned"
    /\ acq.library
    /\ acq.silent = "error"
    /\ acq.popups = 0
    /\ acq.result = NoToken
    /\ error = "Failed to acquire token silently"

\* C24: with skipAuth=true the client acquires no token (no silent attempt, no
\* popup), puts no Authorization header, issues exactly one request, and
\* returns its response, a 401 too, without a retry.
C24_SkipAuth ==
    req.skipAuth =>
        /\ Len(req.tokens) = 0
        /\ req.silent = "none"
        /\ req.popups = 0
        /\ req.pc \in {"request", "done"}
        /\ Len(req.sent) = 1
        /\ req.sent[1].Authorization = NoHeader
        /\ req.pc = "done" /\ ~req.threw => req.statuses = <<req.result>>

\* a request with skipAuth=true has returned 401 although the client had a
\* handle with a cached account
C24_Witness ==
    /\ req.skipAuth
    /\ req.pc = "done"
    /\ req.statuses = <<401>>
    /\ req.result = 401
    /\ apiMsalInstance # 0
    /\ Len(msalAccounts) > 0

\* C25: with skipAuth=false every request issued carries
\* 'Authorization: Bearer <token>' exactly when the token acquisition before
\* it returned a token; when it returned null the request is issued all the
\* same, without the header.
C25_BearerIffToken ==
    ~req.skipAuth /\ req.pc # "idle" =>
        /\ Len(req.tokens) >= 1 => Len(req.sent) >= 1
        /\ \A i \in 1 .. Len(req.sent) :
               /\ Len(req.tokens) >= i
               /\ req.sent[i].Authorization =
                      IF req.tokens[i] = NoToken THEN NoHeader
                      ELSE "Bearer " \o req.tokens[i]

\* the silent attempt and the popup have both failed, and the request went out
\* without the header
C25_Witness ==
    /\ ~req.skipAuth
    /\ req.pc = "done"
    /\ req.popups = 1
    /\ req.tokens = <<NoToken>>
    /\ Len(req.sent) = 1
    /\ req.sent[1].Authorization = NoHeader
    /\ req.result = 200

\* C26: whatever status the server answers, the response is returned and
\* nothing is thrown; for a status other than 401 exactly one request is
\* issued and no token is acquired again.
C26_StatusReturned ==
    req.pc = "done" =>
        /\ Len(req.statuses) = Len(req.sent) =>
               /\ ~req.threw
               /\ req.result = req.statuses[Len(req.statuses)]
        /\ Len(req.statuses) >= 1 /\ req.statuses[1] # 401 =>
               /\ Len(req.sent) = 1
               /\ Len(req.tokens) = IF req.skipAuth THEN 0 ELSE 1

\* an authenticated request has been answered 500 and that was returned
C26_Witness ==
    /\ req.pc = "done"
    /\ ~req.skipAuth
    /\ req.tokens = <<"tokenA">>
    /\ req.statuses = <<500>>
    /\ Len(req.sent) = 1
    /\ req.result = 500
    /\ ~req.threw

\* C27: a file upload is sent with its FormData body as it is and with no
\* Content-Type header on the request.
C27_UploadNoContentType ==
    req.caller = "uploadFileAuthenticated" =>
        /\ req.body = "formdata"
        /\ \A i \in 1 .. Len(req.sent) : req.sent[i].ContentType = NoHeader

\* C30: in the client's token acquisition a popup is attempted only when the
\* silent attempt failed with an interaction-required error.
C30_PopupOnlyOnInteractionRequired ==
    [][ req'.popups > req.popups => req'.silent = "interaction_required" ]_vars

\* C28: the object useApi returns holds the authenticated API functions when
\* isAuthenticated is true and the non-authenticated ones when it is false.
C28_UseApiFallback ==
    \A name \in ApiNames :
        useApi[name] = IF isAuthenticated THEN name \o "Authenticated" ELSE name

\* C29: whenever instance is not null and AuthenticatedApp has rendered the
\* wrapped content with it, the apiClient's handle is that instance: once the
\* effects of the commit have run, and already when the wrapped content, in
\* its mount effects, dispatches its first requests.
C29_HandleForwarded ==
    /\ shown.instance # 0 /\ shown.view = "children" /\ pendingEffects = <<>> =>
           apiMsalInstance = shown.instance
    /\ childSaw.mounted /\ childSaw.instance # 0 =>
           childSaw.handle = childSaw.instance

\* C31: when a request with skipAuth=false receives 401 and the token
\* re-acquisition yields no token, no retried request is issued and the 401
\* response is what the caller gets.
C31_NoTokenNoRetry ==
    Len(req.tokens) = 2 /\ req.tokens[2] = NoToken =>
        /\ ~req.skipAuth
        /\ req.pc = "done"
        /\ Len(req.sent) = 1
        /\ req.statuses = <<401>>
        /\ req.result = 401 /\ ~req.threw

\* a token was sent, 401 came back, the re-acquisition yielded none
C31_Witness ==
    /\ req.pc = "done" /\ ~req.skipAuth
    /\ Len(req.tokens) = 2 /\ req.tokens[1] # NoToken /\ req.tokens[2] = NoToken
    /\ req.statuses = <<401>> /\ Len(req.sent) = 1
    /\ req.sent[1].Authorization = Bearer(req.tokens[1])
    /\ req.result = 401

\* C36: the abort signal of a chat request is attached to the initial and to
\* the retried request, so that no network call of the request is in flight
\* once the signal is aborted, and aborting leaves the cached config, the
\* dispatcher's client handle and the session state unchanged.
C36_AbortCancelsFetch ==
    /\ [](req.caller = "chatApiAuthenticated" =>
             /\ req.signal
             /\ \A i \in 1 .. Len(req.signals) : req.signals[i]
             /\ req.aborted => req.pc # "request")
    /\ [][ req'.aborted /\ ~req.aborted =>
             /\ req.pc = "request" => req'.pc = "done" /\ req'.threw
             /\ req'.sent = req.sent
             /\ UNCHANGED <<cachedConfig, apiMsalInstance, sessVars>> ]_vars

\* the retried request of a chat call was in flight and has been aborted
C36_Witness ==
    /\ req.caller = "chatApiAuthenticated" /\ req.aborted
    /\ req.statuses = <<401>> /\ Len(req.sent) = 2 /\ req.signals = <<TRUE, TRUE>>
    /\ req.pc = "done" /\ req.threw
    /\ apiMsalInstance # 0

\* C32: the client handle the session exposes is null in every state where
\* initialization failed, a failure while the redirect round trip is
\* finalized included.
C32_FailedInitNullHandle ==
    initPc = "failed" => instance = 0

\* C33: isLoading = true and an error set are never observed
\* together, in any state of initialize, login, logout and
\* acquireTokenSilently.
C33_NeverLoadingWithError ==
    ~(isLoading /\ error # NoError)

\* C34: when an invocation of initialize, login, logout or
\* acquireTokenSilently begins, one that fails with NotInitialized or
\* returns null early included, an error set before is no longer visible.
C34_ErrorClearedAtStart ==
    [][ /\ initPc = "mount" /\ initPc' = "config" => error' = NoError
        /\ acq.pc \in {"idle", "returned"} /\ acq' # acq => error' = NoError
        /\ signIn.pc # "redirect" /\ signIn' # signIn => error' = NoError
        /\ signOut.pc # "redirect" /\ signOut' # signOut => error' = NoError ]_vars

\* C35: the gate's probe of /.auth/me never changes authentication state:
\* when it starts and whatever its outcome, instance, accounts,
\* isAuthenticated, isLoading and error are unchanged, and no login flow and
\* no token acquisition is started.
C35_ProbeChangesNothing ==
    [][ probe' # probe =>
          /\ UNCHANGED <<instance, accounts, isAuthenticated, isLoading, error>>
          /\ UNCHANGED <<signIn, signOut, acq, msalAccounts, apiMsalInstance>> ]_vars

\* the probe found claims from App Service and the session is still signed out
C35_Witness ==
    /\ probe.inFlight = 0 /\ probe.log = "User authenticated via App Service"
    /\ instance # 0 /\ ~isAuthenticated /\ ~isLoading /\ accounts = <<>>
    /\ signIn.pc = "idle"
    /\ shown.view = "signin"

\* An invocation that went through the sources and got nothing from either.
Degraded(c) ==
    /\ Resolved(c)
    /\ call[c].backend \in BackendFailures
    /\ call[c].authMe \in AuthMeFailures

\* C37: a resolution in which every network source failed is memoized like
\* any other: its result, made of injected, build-time and default values
\* only, is cached when it returns, and an invocation that starts after it
\* with no clearConfigCache in between returns that object without a request
\* to /getMsalConfig or /.auth/me.
C37_DegradedResultCached ==
    /\ [](\A c \in Callers : Degraded(c) =>
             call[c].ret = Fallbacks(EmptyConfig(call[c].ret.id), injected, viteEnv))
    /\ [][ \A c \in Callers :
             /\ call[c].pc = "awaitAuthMe" /\ call[c].backend \in BackendFailures
                   /\ call'[c].pc = "done" /\ call'[c].authMe \in AuthMeFailures =>
                    /\ cachedConfig' = call'[c].ret
                    /\ cachedConfig'.id # 0
             /\ calls' = calls + 1 /\ c = calls'
                   /\ (\E d \in Callers : Degraded(d) /\ lastReturned = call[d].ret) =>
                    /\ call'[c].pc = "done"
                    /\ call'[c].ret = lastReturned
                    /\ call'[c].fetches = 0
                    /\ backendQueries' = backendQueries
                    /\ authMeQueries' = authMeQueries
                    /\ cachedConfig' = cachedConfig ]_vars

\* a second invocation has returned, without a request, the object of a first
\* one that found no client id anywhere
C37_Witness ==
    /\ clears = 0
    /\ call[2].pc = "done" /\ call[2].fetches = 0
    /\ call[2].ret = Fallbacks(EmptyConfig(1), injected, viteEnv)
    /\ ~Truthy(call[2].ret.AZURE_CLIENT_ID)
    /\ cachedConfig = call[2].ret
    /\ backendQueries = 1 /\ authMeQueries = 1

\* C38: an invocation that was in flight when clearConfigCache was called does
\* not put its result into the cache when it completes: the cache stays
\* empty until an invocation that started after the clear completes.
C38_NoStaleRecache ==
    [][ \A c \in Callers :
          call[c].pc = "awaitAuthMe" /\ call'[c].pc = "done" /\ call[c].epoch < clears =>
              cachedConfig' = cachedConfig ]_vars

\* C39: the configuration loadMsalConfig returns reflects the RuntimeConfig
\* resolved for that call: its clientId is the resolved one, and empty when
\* the resolved one is empty (after clearConfigCache and a re-resolution, no
\* value of an earlier resolution survives in msalConfig), so that
\* initialization then ends with the configuration error.
C39_MsalConfigCurrent ==
    \A c \in Callers :
        c = initCall /\ initPc \notin {"mount", "config"} /\ call[c].pc = "done" =>
            IF Truthy(call[c].ret.AZURE_CLIENT_ID)
            THEN msalConfig.clientId = call[c].ret.AZURE_CLIENT_ID
            ELSE /\ ~Truthy(msalConfig.clientId)
                 /\ initPc = "failed"
                 /\ error = ClientIdError
                 /\ instance = 0

====
